---- MODULE Spec2Model ----
(***************************************************************************)
(* patchwork: the k-means++ diversity sampler (KPlusPlusSampler, _badge.py)*)
(* and the per-epoch loops of the SimCLR and BYOL trainers.                *)
(*                                                                         *)
(* Records are numbered 0..N-1 as in the Python code.  The embedding       *)
(* matrix X has one column (d = 1), so that the Euclidean distance cdist   *)
(* computes is the exact integer |X[i] - X[j]|.  Python list objects live  *)
(* in `heap`, and a sampler's self.indices is a reference into it.         *)
(***************************************************************************)
EXTENDS Integers, Sequences, FiniteSets, TLC

\* ------------------------------------------------------------------ bounds
MaxN == 3
MaxCoord == 2
MaxSupplied == 1
MaxK == 2
MaxSharedN == 2
MaxBatches == 3
MaxEpochs == 3

VARIABLES
    X,              \* self.X: the (N,1) array, a function 0..N-1 -> coordinate
    heap,           \* Python list objects: list id -> sequence of indices
    indices,        \* self.indices of each sampler: a list id (a reference)
    has_min_dists,  \* whether the attribute self.min_dists exists
    min_dists,      \* self.min_dists of each sampler: 0..N-1 -> distance
    supplied,       \* history: the contents of the list given to __init__
    returned,       \* history: concatenation of the lists choose returned
    frame,          \* the one running choose call (single thread)
    result,         \* outcome of the last finished choose call
    simclr,         \* the SimCLRTrainer
    byol            \* the BYOLTrainer

samplerVars == <<X, heap, indices, has_min_dists, min_dists, supplied,
                 returned, frame, result>>
trainerVars == <<simclr, byol>>
vars == <<X, heap, indices, has_min_dists, min_dists, supplied, returned,
          frame, result, simclr, byol>>

\* ----------------------------------------------------------------- helpers
N == Cardinality(DOMAIN X)
Records == 0..(N - 1)

Abs(a) == IF a < 0 THEN -a ELSE a

SetMin(S) == CHOOSE m \in S : \A y \in S : m <= y

RECURSIVE SumUpTo(_, _)
SumUpTo(f, n) == IF n < 0 THEN 0 ELSE f[n] + SumUpTo(f, n - 1)

SeqsUpTo(S, n) == UNION {[1..m -> S] : m \in 0..n}

Range(q) == {q[j] : j \in 1..Len(q)}

\* scipy cdist (euclidean) between rows i and j of an (N,1) array
Dist(A, i, j) == Abs(A[i] - A[j])

\* cdist(A[np.array(rows),:], A).min(axis=0): for every record the distance
\* to the nearest of the rows
CdistMin(A, rows) ==
    [i \in DOMAIN A |-> SetMin({Dist(A, rows[j], i) : j \in 1..Len(rows)})]

\* faulty variant: np.maximum in place of np.minimum
ElementwiseMax(a, b) == [i \in DOMAIN a |-> IF a[i] >= b[i] THEN a[i] ELSE b[i]]

\* np.minimum(a, b)
ElementwiseMin(a, b) == [i \in DOMAIN a |-> IF a[i] <= b[i] THEN a[i] ELSE b[i]]

Zeros(A) == [i \in DOMAIN A |-> 0]

\* --------------------------------------------------- KPlusPlusSampler state
Caller == 0             \* the list object the caller passes as `indices`
Fresh(s) == s           \* the list object `indices = []` creates in __init__

\* faulty variant: __init__ keeps a copy, self.indices = list(indices)
StoredIndicesCopy(s, arg, cs) ==
    [ref |-> Fresh(s), contents |-> IF arg = "None" THEN <<>> ELSE cs]

\* __init__, lines 27-30: the list object self.indices names and what it holds.
\* arg is "None" (no indices given) or "list" (the caller's list, holding cs).
StoredIndices(s, arg, cs) ==
    IF arg = "None" THEN [ref |-> Fresh(s), contents |-> <<>>]
                    ELSE [ref |-> Caller, contents |-> cs]

\* __init__, lines 32-33: min_dists exists only when indices were supplied
InitHasMinDists(cs) == Len(cs) > 0
InitMinDists(A, cs) == IF Len(cs) > 0 THEN CdistMin(A, cs) ELSE Zeros(A)

Idle == [pc |-> "idle", self |-> 0, entry |-> "", k |-> 0, rem |-> 0,
         out |-> <<>>, before |-> <<>>, rule |-> ""]

NoResult == [kind |-> "none", exc |-> "", self |-> 0, entry |-> "", k |-> 0,
             value |-> <<>>, before |-> <<>>]

\* The state after constructing the samplers of S over array A; args[s] says
\* whether sampler s was given the caller's list (holding cs) or nothing.
SamplerInit(S, A, args, cs) ==
    /\ X = A
    /\ heap = [l \in {Caller} \cup S |->
                IF l = Caller THEN cs
                ELSE IF StoredIndices(l, args[l], cs).ref = l
                     THEN StoredIndices(l, args[l], cs).contents
                     ELSE <<>>]
    /\ indices = [s \in S |-> StoredIndices(s, args[s], cs).ref]
    /\ has_min_dists = [s \in S |->
                         InitHasMinDists(StoredIndices(s, args[s], cs).contents)]
    /\ min_dists = [s \in S |->
                     InitMinDists(A, StoredIndices(s, args[s], cs).contents)]
    /\ supplied = [s \in S |-> StoredIndices(s, args[s], cs).contents]
    /\ returned = [s \in S |-> <<>>]
    /\ frame = Idle
    /\ result = NoResult

Samplers == DOMAIN indices
SelfIndices(s) == heap[indices[s]]

\* ------------------------------------------------------- selection step
\* faulty variant: the test reads the local list `indices` of choose, not self.indices
UseInitialLocal(s) == Len(frame.out) = 0

\* choose, line 59: which of the two rules the iteration uses
UseInitial(s) == Len(SelfIndices(s)) = 0

\* faulty variant: the weights are smoothed so that their sum is never zero
WeightsSmoothed(md) == [i \in DOMAIN md |-> md[i] * md[i] + 1]

\* _choose_non_initial_index, line 43: p = self.min_dists**2
Weights(md) == [i \in DOMAIN md |-> md[i] * md[i]]

\* line 44: p.sum(); p /= p.sum() leaves the probability p[i]/Total(p), which
\* is NaN everywhere when the sum is 0
Total(p) == SumUpTo(p, Cardinality(DOMAIN p) - 1)

\* faulty variant: the draw forgets p=p and is uniform over np.arange(N)
ChoiceSupportUniform(p) == DOMAIN p

\* line 46: np.random.choice(np.arange(N), p=p) draws i with probability
\* p[i]/Total(p), so exactly the records of positive weight can come out
ChoiceSupport(p) == {i \in DOMAIN p : p[i] > 0}

\* The possible outcomes of one iteration of the loop of choose (lines 59-62)
\* up to the draw: an index together with the rule that drew it, or the
\* exception the iteration raises.
StepOutcomes(s) ==
    IF UseInitial(s)
    THEN \* _choose_initial_index, line 36: np.random.randint(self.N)
         {[kind |-> "ind", ind |-> i, rule |-> "initial", exc |-> ""] : i \in Records}
    ELSE IF ~has_min_dists[s]
    THEN \* line 43 reads an attribute __init__ never set
         {[kind |-> "error", ind |-> 0, rule |-> "non_initial", exc |-> "AttributeError"]}
    ELSE IF Total(Weights(min_dists[s])) = 0
    THEN \* line 46: np.random.choice rejects probabilities that are NaN
         {[kind |-> "error", ind |-> 0, rule |-> "non_initial", exc |-> "ValueError"]}
    ELSE {[kind |-> "ind", ind |-> i, rule |-> "non_initial", exc |-> ""] :
             i \in ChoiceSupport(Weights(min_dists[s]))}

\* faulty variant: line 50 stores the new distances without np.minimum
MinDistsAfterNoMin(s, rule, ind) == CdistMin(X, <<ind>>)

\* lines 38 and 49-50: self.min_dists after index ind was drawn by `rule`
MinDistsAfter(s, rule, ind) ==
    IF rule = "initial"
    THEN CdistMin(X, <<ind>>)
    ELSE ElementwiseMin(min_dists[s], CdistMin(X, <<ind>>))

\* faulty variant: indices.insert(0, ind)
LocalPrepend(out, ind) == <<ind>> \o out

\* line 63: indices.append(ind) on the list choose returns
LocalAppend(out, ind) == Append(out, ind)

\* choose(k) / __call__(k) is entered: lines 57-58 (and 71)
Call(s, k, entry) ==
    /\ frame.pc = "idle"
    /\ frame' = [pc |-> "loop", self |-> s, entry |-> entry, k |-> k, rem |-> k,
                 out |-> <<>>, before |-> SelfIndices(s), rule |-> ""]
    /\ result' = NoResult
    /\ UNCHANGED <<X, heap, indices, has_min_dists, min_dists, supplied, returned>>
    /\ UNCHANGED trainerVars

\* the effect of one iteration of the loop whose draw came out as o
Step(s, o) ==
    IF o.kind = "ind"
    THEN /\ heap' = [heap EXCEPT ![indices[s]] = Append(@, o.ind)]
         /\ min_dists' = [min_dists EXCEPT ![s] = MinDistsAfter(s, o.rule, o.ind)]
         /\ has_min_dists' = [has_min_dists EXCEPT ![s] = TRUE]
         /\ frame' = [frame EXCEPT !.out = LocalAppend(@, o.ind),
                                   !.rem = @ - 1,
                                   !.rule = o.rule]
         /\ UNCHANGED <<result, returned>>
    ELSE \* the exception leaves choose: nothing is returned
         /\ result' = [kind |-> "error", exc |-> o.exc, self |-> s,
                       entry |-> frame.entry, k |-> frame.k,
                       value |-> frame.out, before |-> frame.before]
         /\ frame' = Idle
         /\ UNCHANGED <<heap, min_dists, has_min_dists, returned>>

\* one iteration of the loop, lines 58-63
Iterate ==
    /\ frame.pc = "loop"
    /\ frame.rem > 0
    /\ \E o \in StepOutcomes(frame.self) : Step(frame.self, o)
    /\ UNCHANGED <<X, indices, supplied>>
    /\ UNCHANGED trainerVars

\* line 65: return indices
Return ==
    /\ frame.pc = "loop"
    /\ frame.rem = 0
    /\ result' = [kind |-> "list", exc |-> "", self |-> frame.self,
                  entry |-> frame.entry, k |-> frame.k,
                  value |-> frame.out, before |-> frame.before]
    /\ returned' = [returned EXCEPT ![frame.self] = @ \o frame.out]
    /\ frame' = Idle
    /\ UNCHANGED <<X, heap, indices, has_min_dists, min_dists, supplied>>
    /\ UNCHANGED trainerVars

Choose == \E s \in Samplers, k \in 0..MaxK : Call(s, k, "choose")
DunderCall == \E s \in Samplers, k \in 0..MaxK : Call(s, k, "__call__")

NextSampler == Choose \/ DunderCall \/ Iterate \/ Return

\* ------------------------------------------------------------ SimCLRTrainer
\* build_simclr_training_step defines the nested training_step and falls off
\* its end: the call evaluates to None
BuildSimclrTrainingStep == "None"

\* SimCLRTrainer.__init__, lines 171-180, over a dataset of B batches
SimCLRInit(B) ==
    [training_step |-> BuildSimclrTrainingStep, batches |-> B, step |-> 0,
     pc |-> "idle", pos |-> 0, step0 |-> 0, epochs |-> 0, outcome |-> "none",
     log |-> <<>>]

\* _run_training_epoch is entered: the iteration over self._ds starts
SimCLR_StartEpoch ==
    /\ simclr.pc = "idle"
    /\ simclr.epochs < MaxEpochs
    /\ simclr' = [simclr EXCEPT !.pc = "loop", !.pos = 0, !.step0 = simclr.step,
                                !.epochs = @ + 1, !.outcome = "none"]
    /\ UNCHANGED <<byol>>
    /\ UNCHANGED samplerVars

\* one batch, lines 196-199; calling None raises TypeError and ends the epoch
SimCLR_Batch ==
    /\ simclr.pc = "loop"
    /\ simclr.pos < simclr.batches
    /\ simclr' =
         IF simclr.training_step = "None"
         THEN [simclr EXCEPT !.pc = "idle", !.outcome = "TypeError"]
         ELSE [simclr EXCEPT
                 !.log = @ \o << [call |-> "_training_step", tags |-> {},
                                  step |-> simclr.step],
                                 [call |-> "_record_scalars", tags |-> {"loss"},
                                  step |-> simclr.step] >>,
                 !.step = @ + 1,
                 !.pos = @ + 1]
    /\ UNCHANGED <<byol>>
    /\ UNCHANGED samplerVars

\* the dataset is exhausted: _run_training_epoch returns
SimCLR_EndEpoch ==
    /\ simclr.pc = "loop"
    /\ simclr.pos = simclr.batches
    /\ simclr' = [simclr EXCEPT !.pc = "idle", !.outcome = "completed"]
    /\ UNCHANGED <<byol>>
    /\ UNCHANGED samplerVars

\* -------------------------------------------------------------- BYOLTrainer
\* _build_byol_training_step returns its nested training_step (line 134)
BuildByolTrainingStep == "function"

\* the keys of the lossdict training_step returns, lines 119-125
LossKeys(weight_decay) ==
    IF weight_decay > 0 THEN {"loss", "mse_loss", "l2_loss"}
                        ELSE {"loss", "mse_loss"}

\* GenericExtractor._distribute_training_function: hands back a callable that
\* runs the step function
DistributeTrainingFunction(step_fn) == step_fn

\* GenericExtractor._record_scalars(**scalars): writes the scalars to the
\* summary at the trainer's current step
RecordScalars(tags, step) == [call |-> "_record_scalars", tags |-> tags, step |-> step]

\* BYOLTrainer.__init__, lines 214-251, over a dataset of B batches
BYOLInit(B, weight_decay) ==
    [training_step |-> DistributeTrainingFunction(BuildByolTrainingStep),
     weight_decay |-> weight_decay, batches |-> B, step |-> 0,
     pc |-> "idle", pos |-> 0, step0 |-> 0, epochs |-> 0, outcome |-> "none",
     log |-> <<>>]

\* faulty variant: self.step += 1 moved before the learning rate is recorded
BYOLBatchCallsLate(t) ==
    << [call |-> "_training_step", tags |-> {}, step |-> t.step],
       [call |-> "_record_scalars", tags |-> LossKeys(t.weight_decay), step |-> t.step],
       [call |-> "_record_scalars", tags |-> {"learning_rate"}, step |-> t.step + 1] >>

\* the calls one batch makes, in order, and the step it leaves (lines 270-273)
BYOLBatchCalls(t) ==
    << [call |-> "_training_step", tags |-> {}, step |-> t.step],
       RecordScalars(LossKeys(t.weight_decay), t.step),
       RecordScalars({"learning_rate"}, t.step) >>
BYOLStepAfterBatch(t) == t.step + 1

BYOL_StartEpoch ==
    /\ byol.pc = "idle"
    /\ byol.epochs < MaxEpochs
    /\ byol' = [byol EXCEPT !.pc = "loop", !.pos = 0, !.step0 = byol.step,
                            !.epochs = @ + 1, !.outcome = "none"]
    /\ UNCHANGED <<simclr>>
    /\ UNCHANGED samplerVars

BYOL_Batch ==
    /\ byol.pc = "loop"
    /\ byol.pos < byol.batches
    /\ byol' =
         IF byol.training_step = "None"
         THEN [byol EXCEPT !.pc = "idle", !.outcome = "TypeError"]
         ELSE [byol EXCEPT !.log = @ \o BYOLBatchCalls(byol),
                           !.step = BYOLStepAfterBatch(byol),
                           !.pos = @ + 1]
    /\ UNCHANGED <<simclr>>
    /\ UNCHANGED samplerVars

BYOL_EndEpoch ==
    /\ byol.pc = "loop"
    /\ byol.pos = byol.batches
    /\ byol' = [byol EXCEPT !.pc = "idle", !.outcome = "completed"]
    /\ UNCHANGED <<simclr>>
    /\ UNCHANGED samplerVars

NextTrainers ==
    \/ SimCLR_StartEpoch \/ SimCLR_Batch \/ SimCLR_EndEpoch
    \/ BYOL_StartEpoch \/ BYOL_Batch \/ BYOL_EndEpoch

\* ---------------------------------------------------------- specifications
Arrays == UNION {[0..(n - 1) -> 0..MaxCoord] : n \in 1..MaxN}

SharedArrays == UNION {[0..(n - 1) -> 0..MaxCoord] : n \in 1..MaxSharedN}

TrainersAtRest == simclr = SimCLRInit(0) /\ byol = BYOLInit(0, 0)

\* one sampler, built with no indices or with a list of the caller's
Init ==
    /\ \E A \in Arrays, arg \in {"None", "list"} :
         \E cs \in SeqsUpTo(DOMAIN A, MaxSupplied) :
            /\ arg = "None" => cs = <<>>
            /\ SamplerInit({1}, A, [s \in {1} |-> arg], cs)
    /\ TrainersAtRest

Spec == Init /\ [][NextSampler]_vars

\* two samplers built from the same list object of the caller
InitShared ==
    /\ \E A \in SharedArrays :
         \E cs \in SeqsUpTo(DOMAIN A, MaxSupplied) :
            SamplerInit({1, 2}, A, [s \in {1, 2} |-> "list"], cs)
    /\ TrainersAtRest

SpecShared == InitShared /\ [][NextSampler]_vars

\* the two trainers, each over a dataset of up to MaxBatches batches
InitTrainers ==
    /\ SamplerInit({1}, [i \in {0} |-> 0], [s \in {1} |-> "None"], <<>>)
    /\ \E B \in 0..MaxBatches : simclr = SimCLRInit(B)
    /\ \E B \in 0..MaxBatches, wd \in {0, 1} : byol = BYOLInit(B, wd)

SpecTrainers == InitTrainers /\ [][NextTrainers]_vars

\* ------------------------------------------------------------------ claims
Distinct(q) == \A a, b \in 1..Len(q) : a # b => q[a] # q[b]
Last(q) == q[Len(q)]

\* the distance from record i to the nearest record named in list q
NearestIn(q, i) == SetMin({Abs(X[i] - X[q[j]]) : j \in 1..Len(q)})

\* a step of the loop of choose that selected an index
Selected ==
    /\ frame.pc = "loop"
    /\ frame'.pc = "loop"
    /\ Len(frame'.out) = Len(frame.out) + 1

\* the loop of choose can select record i now
CanSelect(i) ==
    ENABLED (/\ frame.pc = "loop"
             /\ frame.rem > 0
             /\ \E o \in StepOutcomes(frame.self) :
                   o.kind = "ind" /\ o.ind = i /\ Step(frame.self, o))

\* C1: every index choose returned lies in 0..N-1 and none was returned
\* twice, within one call or across the calls on the same sampler.
C1_ReturnedDistinctInRange ==
    \A s \in Samplers :
        /\ \A j \in 1..Len(returned[s]) : returned[s][j] \in 0..(N - 1)
        /\ Distinct(returned[s])

C1_Witness ==
    /\ result.kind = "list"
    /\ Len(result.value) >= 1
    /\ Len(returned[result.self]) > Len(result.value)

\* the stored min_dists against the distances recomputed from self.indices,
\* and the update one selection step makes
C2_MinDistsInv ==
    \A s \in Samplers :
        Len(SelfIndices(s)) > 0 =>
            /\ has_min_dists[s]
            /\ \A i \in 0..(N - 1) : min_dists[s][i] = NearestIn(SelfIndices(s), i)

C2_MinDistsStep ==
    (Selected /\ Len(SelfIndices(frame.self)) > 0) =>
        \A i \in 0..(N - 1) :
            LET old == min_dists[frame.self][i]
                new == Abs(X[i] - X[Last(frame'.out)])
            IN  min_dists'[frame.self][i] = IF old <= new THEN old ELSE new

\* C2: whenever self.indices is non-empty, min_dists[i] is the distance from
\* X[i] to the nearest selected point; a selection step on a non-empty list
\* gets the new value as the elementwise minimum of the old one and the
\* distances to the point it chose.
C2_MinDists == []C2_MinDistsInv /\ [][C2_MinDistsStep]_vars

\* some record is nearer to an older selection than to the latest one
C2_Witness ==
    /\ Len(SelfIndices(1)) >= 2
    /\ \E i \in 0..(N - 1) :
          /\ min_dists[1][i] > 0
          /\ min_dists[1][i] < Abs(X[i] - X[Last(SelfIndices(1))])

\* C3: when an index is requested and self.indices is empty every record can
\* come out; otherwise exactly the records whose min distance is nonzero can,
\* so a record at distance zero from a selected point never does.
C3_PossibleOutcomes ==
    (frame.pc = "loop" /\ frame.rem > 0) =>
        LET s == frame.self
            can == {i \in 0..(N - 1) : CanSelect(i)}
        IN  /\ Len(SelfIndices(s)) = 0 => can = 0..(N - 1)
            /\ Len(SelfIndices(s)) > 0 =>
                 /\ can = {i \in 0..(N - 1) : min_dists[s][i] # 0}
                 /\ \A i \in 0..(N - 1) :
                       (\E j \in Range(SelfIndices(s)) : X[j] = X[i]) => i \notin can

\* a pending draw where an unselected record duplicates a selected vector
C3_Witness ==
    /\ frame.pc = "loop" /\ frame.rem > 0
    /\ \E i, j, m \in 0..(N - 1) :
          /\ i \notin Range(SelfIndices(frame.self))
          /\ j \in Range(SelfIndices(frame.self))
          /\ X[i] = X[j]
          /\ ~CanSelect(i)
          /\ CanSelect(m)

\* C4: choose(k) and sampler(k) return exactly k indices in the order of
\* selection, and self.indices becomes its old value followed by them.
C4_ReturnsAppended ==
    /\ frame.pc = "loop" =>
          /\ SelfIndices(frame.self) = frame.before \o frame.out
          /\ Len(frame.out) + frame.rem = frame.k
    /\ result.kind = "list" =>
          /\ Len(result.value) = result.k
          /\ SelfIndices(result.self) = result.before \o result.value

\* sampler(2) on a non-empty self.indices has returned two indices
C4_Witness ==
    /\ result.kind = "list"
    /\ result.entry = "__call__"
    /\ Len(result.value) = 2
    /\ Len(result.before) >= 1

\* C5: a sampler built with a non-empty list of indices has min_dists from
\* them, never uses the uniform initial rule, and never returns one of them.
C5_SuppliedIndices ==
    \A s \in Samplers :
        Len(supplied[s]) > 0 =>
            /\ has_min_dists[s]
            /\ SelfIndices(s) = supplied[s] =>
                  \A i \in 0..(N - 1) : min_dists[s][i] = NearestIn(supplied[s], i)
            /\ (frame.pc = "loop" /\ frame.self = s) => frame.rule # "initial"
            /\ \A j \in 1..Len(returned[s]) : returned[s][j] \notin Range(supplied[s])
            /\ (frame.pc = "loop" /\ frame.self = s) =>
                  \A j \in 1..Len(frame.out) : frame.out[j] \notin Range(supplied[s])

C5_Witness ==
    /\ Len(supplied[1]) > 0
    /\ Len(returned[1]) >= 1
    /\ \E i \in 0..(N - 1) : i \notin Range(supplied[1]) /\ X[i] = X[supplied[1][1]]

\* what a step of the loop does when every min distance is zero
C6_AllZeroStep ==
    LET s == frame.self IN
    (/\ frame.pc = "loop" /\ frame.rem > 0
     /\ Len(SelfIndices(s)) > 0
     /\ has_min_dists[s]
     /\ \A i \in 0..(N - 1) : min_dists[s][i] = 0)
    => /\ result'.kind = "error"
       /\ frame'.pc = "idle"
       /\ heap' = heap
       /\ min_dists' = min_dists
       /\ returned' = returned
       /\ heap'[indices[s]] = frame.before \o frame.out

\* C6: a selection step requested while every min distance is zero raises,
\* leaves self.indices and min_dists as they were, and the call returns
\* nothing although the indices of its earlier iterations stay appended.
C6_AllZeroRaises == [][C6_AllZeroStep]_vars

C6_Witness ==
    /\ result.kind = "error"
    /\ result.exc = "ValueError"
    /\ Len(result.value) >= 1
    /\ SelfIndices(result.self) = result.before \o result.value
    /\ Len(returned[result.self]) < Len(SelfIndices(result.self)) - Len(supplied[result.self])

\* C7: a SimCLR epoch over B batches runs the training step, records the loss
\* and increments step once per batch, and completes with step grown by B.
C7_SimCLREpoch ==
    (simclr.pc = "idle" /\ simclr.outcome # "none") =>
        /\ simclr.outcome = "completed"
        /\ simclr.step = simclr.step0 + simclr.batches
        /\ Len(simclr.log) = 2 * simclr.step

\* the log of calls against the step counter
C8_BYOLInv ==
    /\ byol.outcome # "TypeError"
    /\ byol.epochs = 0 => byol.step = 0
    /\ Len(byol.log) = 3 * byol.step
    /\ \A j \in 0..(byol.step - 1) :
          /\ byol.log[3 * j + 1].call = "_training_step"
          /\ byol.log[3 * j + 1].step = j
          /\ byol.log[3 * j + 2].call = "_record_scalars"
          /\ {"loss", "mse_loss"} \subseteq byol.log[3 * j + 2].tags
          /\ byol.log[3 * j + 2].step = j
          /\ byol.log[3 * j + 3].call = "_record_scalars"
          /\ byol.log[3 * j + 3].tags = {"learning_rate"}
          /\ byol.log[3 * j + 3].step = j
    /\ byol.pc = "loop" => byol.step = byol.step0 + byol.pos
    /\ byol.outcome = "completed" => byol.step = byol.step0 + byol.batches

\* C8: BYOLTrainer.step starts at 0; every batch runs the training step once,
\* records its loss scalars and then the learning rate at the step value
\* before the increment, and then adds one to step; step never decreases and
\* an epoch over B batches adds exactly B.
C8_BYOLEpoch == []C8_BYOLInv /\ [][byol'.step >= byol.step]_vars

C8_Witness ==
    /\ byol.outcome = "completed"
    /\ byol.batches >= 2
    /\ byol.epochs >= 2
    /\ byol.weight_decay > 0

\* the effect of one selection on the caller's list and on the other sampler
C9_SharedStep ==
    Selected =>
        LET s == frame.self
            ind == Last(frame'.out)
        IN  /\ indices[s] = Caller
            /\ heap'[Caller] = Append(heap[Caller], ind)
            /\ \A t \in Samplers \ {s} :
                  /\ heap'[indices[t]] = Append(heap[indices[t]], ind)
                  /\ min_dists'[t] = min_dists[t]
                  /\ has_min_dists'[t] = has_min_dists[t]

\* C9: the sampler keeps the caller's list object itself, so each chosen index
\* is appended to the caller's list; a second sampler built from the same list
\* sees the index in its self.indices while its min_dists stays as it was.
C9_SharedList == [][C9_SharedStep]_vars

\* the other sampler's min_dists no longer is the distance to the nearest
\* point of its self.indices
C9_Witness ==
    /\ result.kind = "list"
    /\ Len(result.value) >= 1
    /\ \E t \in Samplers \ {result.self} :
          /\ has_min_dists[t]
          /\ \E i \in 0..(N - 1) : min_dists[t][i] # NearestIn(SelfIndices(t), i)
====
